---- MODULE Spec2Model ----
(***************************************************************************)
(* Model of e3nn_jax.experimental.point_convolution.Convolution.           *)
(*                                                                         *)
(* One behaviour is one constructed module (cfg) followed by one call of   *)
(* __call__, cut into the stages the code separates with its rulers:       *)
(* self-connection and gather, instruction building, the assertion,        *)
(* sort/remap/tensor-product construction, the per-edge tensor product,    *)
(* the scatter aggregation, the output linear map and the mixing.          *)
(*                                                                         *)
(* Abstractions.  An irrep is <<l, p>>; an Irreps is a sequence of         *)
(* [mul, ir].  Sequences are 1-based here and 0-based in Python.  A row of *)
(* an array (one node's or one edge's feature vector) is one float32       *)
(* number; float32 is modelled exactly on the non-negative integers below  *)
(* 2^31 (24-bit significand, round to nearest, ties to even).  Learned     *)
(* parameters are fixed powers of two.                                     *)
(***************************************************************************)
EXTENDS Integers, Sequences, FiniteSets, Bags, TLC

VARIABLES cfg, pc, error, args, node_features, node_self_out, edge_features,
          irreps_mid, instructions, tp, node_conv_out, output

vars == <<cfg, pc, error, args, node_features, node_self_out, edge_features,
          irreps_mid, instructions, tp, node_conv_out, output>>

\* Optional values: None is the empty tuple, Some(x) the 1-tuple.
None == <<>>

Some(x) == <<x>>

\* nodes plus edges of one call
MaxSize == 5

(***************************************************************************)
(* Irreps algebra (library side of the repository).                        *)
(***************************************************************************)
Ir0e == <<0, 1>>
Ir0o == <<0, -1>>
Ir1o == <<1, -1>>
Ir1e == <<1, 1>>

MulIr(m, ir) == [mul |-> m, ir |-> ir]

Abs(x) == IF x < 0 THEN -x ELSE x

\* Irrep.__mul__: the irreps of the product, in increasing l.
IrrepMul(a, b) ==
    [n \in 1..(a[1] + b[1] - Abs(a[1] - b[1]) + 1) |->
        <<Abs(a[1] - b[1]) + n - 1, a[2] * b[2]>>]

\* Irrep.is_scalar
IsScalar(ir) == ir[1] = 0 /\ ir[2] = 1

\* Irrep.dim
IrDim(ir) == 2 * ir[1] + 1

\* Irreps.__contains__
InIrreps(ir, irreps) == \E n \in 1..Len(irreps) : irreps[n].ir = ir

RECURSIVE DimFrom(_, _)
DimFrom(irreps, n) ==
    IF n > Len(irreps) THEN 0
    ELSE irreps[n].mul * IrDim(irreps[n].ir) + DimFrom(irreps, n + 1)

\* Irreps.dim
Dim(irreps) == DimFrom(irreps, 1)

\* Irrep.__lt__
IrLess(a, b) == a[1] < b[1] \/ (a[1] = b[1] /\ a[2] < b[2])

\* Irreps.sort: p[old] = new, the order is (ir, index).
SortPerm(irreps) ==
    [k \in 1..Len(irreps) |->
        1 + Cardinality({m \in 1..Len(irreps) :
                \/ IrLess(irreps[m].ir, irreps[k].ir)
                \/ (irreps[m].ir = irreps[k].ir /\ m < k)})]

SortIrreps(irreps) ==
    [n \in 1..Len(irreps) |->
        irreps[CHOOSE k \in 1..Len(irreps) : SortPerm(irreps)[k] = n]]

RECURSIVE SimplifyFrom(_, _, _)
SimplifyFrom(irreps, n, acc) ==
    IF n > Len(irreps) THEN acc
    ELSE IF irreps[n].mul = 0 THEN SimplifyFrom(irreps, n + 1, acc)
    ELSE IF Len(acc) > 0 /\ acc[Len(acc)].ir = irreps[n].ir
         THEN SimplifyFrom(irreps, n + 1,
                  [acc EXCEPT ![Len(acc)].mul = @ + irreps[n].mul])
         ELSE SimplifyFrom(irreps, n + 1, Append(acc, irreps[n]))

\* Irreps.simplify
Simplify(irreps) == SimplifyFrom(irreps, 1, <<>>)

(***************************************************************************)
(* float32 arithmetic on the non-negative integers below 2^31.             *)
(***************************************************************************)
Big == 2^24

RECURSIVE Ulp(_)
Ulp(x) == IF x < 2^24 THEN 1 ELSE 2 * Ulp(x \div 2)

\* round to nearest, ties to even
Fl(x) ==
    LET q == Ulp(x)
        r == x % q
        lo == x - r
    IN  IF 2 * r < q THEN lo
        ELSE IF 2 * r > q THEN lo + q
        ELSE IF (lo \div q) % 2 = 0 THEN lo ELSE lo + q

FlAdd(x, y) == Fl(x + y)

FlMul(x, y) == Fl(x * y)

(***************************************************************************)
(* The constructed modules (__init__) and the arguments of __call__.       *)
(***************************************************************************)
Config(in, attr, edge, out, fc, nn) ==
    [irreps_node_input |-> in, irreps_node_attr |-> attr,
     irreps_edge_attr |-> edge, irreps_node_output |-> out,
     fc_neurons |-> fc, num_neighbors |-> nn]

Configs ==
    { Config(<<MulIr(0, Ir1o), MulIr(1, Ir0e)>>, None,
             <<MulIr(1, Ir0e), MulIr(1, Ir1o)>>,
             <<MulIr(1, Ir0e), MulIr(1, Ir1o), MulIr(1, Ir1e)>>, FALSE, 4),
      Config(<<MulIr(1, Ir1o), MulIr(2, Ir0e)>>, Some(<<MulIr(1, Ir0e)>>),
             <<MulIr(1, Ir0e), MulIr(1, Ir1o)>>,
             <<MulIr(1, Ir0e), MulIr(1, Ir1o)>>, TRUE, 4),
      Config(<<MulIr(1, Ir1o)>>, None, <<MulIr(1, Ir1o)>>,
             <<MulIr(1, Ir1o)>>, FALSE, 1),
      Config(<<MulIr(1, Ir1o)>>, None, <<MulIr(1, Ir0e)>>,
             <<MulIr(1, Ir1e)>>, FALSE, 1),
      Config(<<MulIr(0, Ir0e)>>, None, <<MulIr(1, Ir0e)>>,
             <<MulIr(1, Ir0e)>>, FALSE, 1) }

NodeInputs(N) ==
    { [n \in 1..N |-> 1], [n \in 1..N |-> IF n = 1 THEN Big ELSE 1] }

\* node_attr defaults to None; it is given only to a module built for it
NodeAttrs(c, N) ==
    IF c.irreps_node_attr = None THEN { None }
    ELSE { None, Some([n \in 1..N |-> 1]) }

\* rows of edge_attr; one row more than there are edges is a shape mismatch
EdgeAttrs(E) ==
    { [e \in 1..E |-> 1 + (e % 2)], [e \in 1..(E + 1) |-> 1] }

\* edge_scalar_attr defaults to None; only a module with fc_neurons reads it
EdgeScalars(c, E) ==
    IF c.fc_neurons
    THEN { Some([e \in 1..E |-> e % 2]) }
    ELSE { None }

\* the calls: N nodes and E edges with N + E <= MaxSize
Arguments(c) ==
    UNION { UNION { [node_input : NodeInputs(N), node_attr : NodeAttrs(c, N),
                     edge_src : [1..E -> 1..N], edge_dst : [1..E -> 1..N],
                     edge_attr : EdgeAttrs(E),
                     edge_scalar_attr : EdgeScalars(c, E)]
                   : E \in 0..(MaxSize - N) }
          : N \in 1..MaxSize }

(***************************************************************************)
(* Self-connection and gather (lines 47-65).                               *)
(***************************************************************************)
\* hk parameter of Linear / FullyConnectedTensorProduct
LinearWeight == 2

UseNodeAttr(c, a) == c.irreps_node_attr # None /\ a.node_attr # None

\* Linear: a path joins equal irreps
LinearPath(irreps_in, out) ==
    \E i \in 1..Len(irreps_in) :
        irreps_in[i].ir = out.ir /\ irreps_in[i].mul > 0 /\ out.mul > 0

\* FullyConnectedTensorProduct: a path joins ir_out in ir_1 * ir_2
FullyConnectedPath(irreps_in1, irreps_in2, out) ==
    \E i \in 1..Len(irreps_in1), j \in 1..Len(irreps_in2) :
        /\ \E n \in 1..Len(IrrepMul(irreps_in1[i].ir, irreps_in2[j].ir)) :
               IrrepMul(irreps_in1[i].ir, irreps_in2[j].ir)[n] = out.ir
        /\ irreps_in1[i].mul > 0 /\ irreps_in2[j].mul > 0 /\ out.mul > 0

HasPath(c, a, irreps_in, out) ==
    IF UseNodeAttr(c, a)
    THEN FullyConnectedPath(irreps_in, c.irreps_node_attr[1], out)
    ELSE LinearPath(irreps_in, out)

\* one row of the vmapped Linear / FullyConnectedTensorProduct
NodeTransform(c, a, x, n) ==
    IF UseNodeAttr(c, a)
    THEN FlMul(FlMul(LinearWeight, x), a.node_attr[1][n])
    ELSE FlMul(LinearWeight, x)

\* tmp.list: one block per entry of irreps_node_input + irreps_node_output
Tmp(c, a) ==
    LET target == c.irreps_node_input \o c.irreps_node_output
    IN  [t \in 1..Len(target) |->
            IF HasPath(c, a, c.irreps_node_input, target[t])
            THEN Some([n \in 1..Len(a.node_input) |->
                          NodeTransform(c, a, a.node_input[n], n)])
            ELSE None]

\* the split of tmp.list at len(irreps_node_input)
SplitAt(c) == Len(c.irreps_node_input)

NodeFeatures(c, a) == SubSeq(Tmp(c, a), 1, SplitAt(c))

NodeSelfOut(c, a) == SubSeq(Tmp(c, a), SplitAt(c) + 1, Len(Tmp(c, a)))

\* variant: the gather indexed by the destination of each edge
GatherIndex_Dst(a) == a.edge_dst

\* the index array of the gather x[edge_src]
GatherIndex(a) == a.edge_src

\* jax.tree_map(lambda x: x[edge_src], node_features)
Gather(blocks, idx) ==
    [i \in 1..Len(blocks) |->
        IF blocks[i] = None THEN None
        ELSE Some([e \in 1..Len(idx) |-> blocks[i][1][idx[e]]])]

\* the row r of a list of blocks, as one number (0: no block is present)
RowOf(blocks, r) ==
    IF \E i \in 1..Len(blocks) : blocks[i] # None
    THEN blocks[CHOOSE i \in 1..Len(blocks) : blocks[i] # None][1][r]
    ELSE 0

(***************************************************************************)
(* Instructions of the tensor product (lines 70-99).                       *)
(***************************************************************************)
\* variant: the filter without the scalar clause
KeepPath_OutputOnly(c, ir_out) == InIrreps(ir_out, c.irreps_node_output)

\* the filter of line 75
KeepPath(c, ir_out) == InIrreps(ir_out, c.irreps_node_output) \/ IsScalar(ir_out)

\* variant: the multiplicity of the edge entry
MidMul_Edge(c, i, j) == c.irreps_edge_attr[j].mul

\* the multiplicity appended at line 77
MidMul(c, i, j) == c.irreps_node_input[i].mul

RECURSIVE BuildFrom(_, _, _, _, _)
BuildFrom(c, i, j, n, acc) ==
    IF i > Len(c.irreps_node_input) THEN acc
    ELSE IF j > Len(c.irreps_edge_attr) THEN BuildFrom(c, i + 1, 1, 1, acc)
    ELSE LET prod == IrrepMul(c.irreps_node_input[i].ir, c.irreps_edge_attr[j].ir)
         IN  IF n > Len(prod) THEN BuildFrom(c, i, j + 1, 1, acc)
             ELSE IF KeepPath(c, prod[n])
                  THEN BuildFrom(c, i, j, n + 1,
                         [mid |-> Append(acc.mid, MulIr(MidMul(c, i, j), prod[n])),
                          ins |-> Append(acc.ins,
                                     [i_in1 |-> i, i_in2 |-> j,
                                      i_out |-> Len(acc.mid) + 1,
                                      mode |-> "uvu", train |-> TRUE])])
                  ELSE BuildFrom(c, i, j, n + 1, acc)

\* the three loops of lines 70-78
BuildInstructionList(c) == BuildFrom(c, 1, 1, 1, [mid |-> <<>>, ins |-> <<>>])

\* variant: the assertion on the number of entries
AssertHolds_NonEmpty(mid) == Len(mid) > 0

\* the condition asserted at line 81
AssertHolds(mid) == Dim(mid) > 0

\* variant: the output index left as appended
RemapOut_Identity(p, i_out) == i_out

\* the remapped output index of line 89
RemapOut(p, i_out) == p[i_out]

Remap(ins, p) ==
    [k \in 1..Len(ins) |-> [ins[k] EXCEPT !.i_out = RemapOut(p, ins[k].i_out)]]

(***************************************************************************)
(* The per-edge tensor product (lines 101-134).                            *)
(***************************************************************************)
\* hk parameter 'weight i x j -> k'
PathWeight == 2

\* HMLP: a bias-free network applied to each row, so HMLP(0) = 0
HMLP(s) == s * s

\* variant: the weight of the first edge for every edge
WeightRowIndex_First(e) == 1

\* the row of the weight that vmap hands to edge e (in_axes 0 or None)
WeightRowIndex(e) == e

Weight(c, a, e) ==
    IF c.fc_neurons
    THEN FlMul(PathWeight, HMLP(a.edge_scalar_attr[1][WeightRowIndex(e)]))
    ELSE PathWeight

\* jax.vmap wants one size for every mapped axis
VmapSizesAgree(c, a, rows) ==
    /\ Len(a.edge_attr) = rows
    /\ c.fc_neurons => Len(a.edge_scalar_attr[1]) = rows

\* tp.left_right on one edge
LeftRight(w, x, y) == FlMul(FlMul(w, x), y)

\* the rows of the new edge_features
Messages(c, a, feats) ==
    [e \in 1..Len(a.edge_src) |->
        LeftRight(Weight(c, a, e), RowOf(feats, e), a.edge_attr[e])]

(***************************************************************************)
(* Scatter aggregation (lines 140-146).                                    *)
(***************************************************************************)
RECURSIVE IndexAddFrom(_, _, _, _)
IndexAddFrom(acc, idx, x, e) ==
    IF e > Len(idx) THEN acc
    ELSE IndexAddFrom([acc EXCEPT ![idx[e]] = FlAdd(@, x[e])], idx, x, e + 1)

\* index_add(i, x, out_dim): zeros(out_dim).at[i].add(x)
IndexAdd(idx, x, out_dim) == IndexAddFrom([n \in 1..out_dim |-> 0], idx, x, 1)

\* variant: the scatter indexed by the source of each edge
ScatterIndex_Src(a) == a.edge_src

\* the index array given to index_add
ScatterIndex(a) == a.edge_dst

\* shape[0] of node_input
OutDim(a) == Len(a.node_input)

RECURSIVE Gcd(_, _)
Gcd(x, y) == IF y = 0 THEN x ELSE Gcd(y, x % y)

\* the number v / d, in lowest terms
Rat(v, d) == IF v = 0 THEN <<0, 1>> ELSE <<v \div Gcd(v, d), d \div Gcd(v, d)>>

Zero == Rat(0, 1)

\* num_neighbors**0.5, for the squares the modules are built with
Sqrt(nn) == CHOOSE r \in 0..nn : r * r = nn

\* the division of line 144
Scale(c, v) == Rat(v, Sqrt(c.num_neighbors))

Aggregated(c, a, msgs) ==
    [n \in 1..OutDim(a) |-> Scale(c, IndexAdd(ScatterIndex(a), msgs, OutDim(a))[n])]

(***************************************************************************)
(* Output map and mixing (lines 151-175).                                  *)
(***************************************************************************)
ConvRow(c, a, r, n) ==
    IF UseNodeAttr(c, a)
    THEN Rat(FlMul(FlMul(LinearWeight, r[1]), a.node_attr[1][n]), r[2])
    ELSE Rat(FlMul(LinearWeight, r[1]), r[2])

NodeConvOut(c, a, mid, feats) ==
    [k \in 1..Len(c.irreps_node_output) |->
        IF HasPath(c, a, mid, c.irreps_node_output[k])
        THEN Some([n \in 1..Len(feats) |-> ConvRow(c, a, feats[n], n)])
        ELSE None]

\* the number one * 1 + c * cos(mixing_angle) + s * sin(mixing_angle)
Combo(one, cc, ss) == [one |-> one, c |-> cc, s |-> ss]

\* variant: a lone block is scaled as in the full mixture
MixBlock_Scaled(x, y) ==
    IF x = None /\ y = None THEN None
    ELSE IF x = None
         THEN Some([n \in 1..Len(y[1]) |-> Combo(Zero, Zero, y[1][n])])
    ELSE IF y = None
         THEN Some([n \in 1..Len(x[1]) |-> Combo(Zero, Rat(x[1][n], 1), Zero)])
    ELSE Some([n \in 1..Len(x[1]) |-> Combo(Zero, Rat(x[1][n], 1), y[1][n])])

\* f(x, y) of lines 164-171, on a block x of numbers and a block y of rationals
MixBlock(x, y) ==
    IF x = None /\ y = None THEN None
    ELSE IF x = None
         THEN Some([n \in 1..Len(y[1]) |-> Combo(y[1][n], Zero, Zero)])
    ELSE IF y = None
         THEN Some([n \in 1..Len(x[1]) |-> Combo(Rat(x[1][n], 1), Zero, Zero)])
    ELSE Some([n \in 1..Len(x[1]) |-> Combo(Zero, Rat(x[1][n], 1), y[1][n])])

Min(x, y) == IF x < y THEN x ELSE y

\* [f(x, y) for x, y in zip(node_self_out, node_conv_out.list)]
Zip(xs, ys) == [k \in 1..Min(Len(xs), Len(ys)) |-> MixBlock(xs[k], ys[k])]

(***************************************************************************)
(* The state machine.                                                      *)
(***************************************************************************)
Init ==
    /\ cfg \in Configs
    /\ pc = "constructed"
    /\ error = "none"
    /\ args = <<>>
    /\ node_features = <<>>
    /\ node_self_out = <<>>
    /\ edge_features = <<>>
    /\ irreps_mid = <<>>
    /\ instructions = <<>>
    /\ tp = <<>>
    /\ node_conv_out = <<>>
    /\ output = <<>>

\* lines 46-65: the call, the self-connection and the gather by source
Call ==
    /\ pc = "constructed"
    /\ \E a \in Arguments(cfg) :
        /\ args' = a
        /\ node_features' = NodeFeatures(cfg, a)
        /\ node_self_out' = NodeSelfOut(cfg, a)
        /\ edge_features' = Gather(NodeFeatures(cfg, a), GatherIndex(a))
    /\ pc' = "gathered"
    /\ UNCHANGED <<cfg, error, irreps_mid, instructions, tp, node_conv_out, output>>

\* lines 70-79
BuildInstructions ==
    /\ pc = "gathered"
    /\ irreps_mid' = BuildInstructionList(cfg).mid
    /\ instructions' = BuildInstructionList(cfg).ins
    /\ pc' = "built"
    /\ UNCHANGED <<cfg, error, args, node_features, node_self_out, edge_features,
                   tp, node_conv_out, output>>

\* lines 81-85
AssertMid ==
    /\ pc = "built"
    /\ IF AssertHolds(irreps_mid)
       THEN pc' = "asserted" /\ error' = error
       ELSE pc' = "raised" /\ error' = "AssertionError"
    /\ UNCHANGED <<cfg, args, node_features, node_self_out, edge_features,
                   irreps_mid, instructions, tp, node_conv_out, output>>

\* lines 87-99: sort, remap, FunctionalTensorProduct, simplify
SortMid ==
    /\ pc = "asserted"
    /\ instructions' = Remap(instructions, SortPerm(irreps_mid))
    /\ tp' = Some([irreps_out |-> SortIrreps(irreps_mid),
                   instructions |-> Remap(instructions, SortPerm(irreps_mid))])
    /\ irreps_mid' = Simplify(SortIrreps(irreps_mid))
    /\ pc' = "tp_built"
    /\ UNCHANGED <<cfg, error, args, node_features, node_self_out, edge_features,
                   node_conv_out, output>>

\* lines 101-134
TensorProduct ==
    /\ pc = "tp_built"
    /\ IF VmapSizesAgree(cfg, args, Len(args.edge_src))
       THEN /\ edge_features' = Messages(cfg, args, edge_features)
            /\ pc' = "convolved"
            /\ error' = error
       ELSE /\ edge_features' = edge_features
            /\ pc' = "raised"
            /\ error' = "ValueError"
    /\ UNCHANGED <<cfg, args, node_features, node_self_out, irreps_mid,
                   instructions, tp, node_conv_out, output>>

\* lines 140-146
ScatterAdd ==
    /\ pc = "convolved"
    /\ node_features' = Aggregated(cfg, args, edge_features)
    /\ pc' = "aggregated"
    /\ UNCHANGED <<cfg, error, args, node_self_out, edge_features, irreps_mid,
                   instructions, tp, node_conv_out, output>>

\* lines 151-175
Mix ==
    /\ pc = "aggregated"
    /\ node_conv_out' = NodeConvOut(cfg, args, irreps_mid, node_features)
    /\ output' = Zip(node_self_out, NodeConvOut(cfg, args, irreps_mid, node_features))
    /\ pc' = "returned"
    /\ UNCHANGED <<cfg, error, args, node_features, node_self_out, edge_features,
                   irreps_mid, instructions, tp>>

Next ==
    \/ Call
    \/ BuildInstructions
    \/ AssertMid
    \/ SortMid
    \/ TensorProduct
    \/ ScatterAdd
    \/ Mix

Spec == Init /\ [][Next]_vars

(***************************************************************************)
(* Helpers of the properties.                                              *)
(***************************************************************************)
Nodes == 1..Len(args.node_input)

Edges == 1..Len(args.edge_src)

PastAssert == pc \notin {"constructed", "gathered", "built"}

ShapesMatch(a) == Len(a.edge_attr) = Len(a.edge_src)

\* the edges into node n, in the order of the edge list
RECURSIVE IncomingFrom(_, _, _)
IncomingFrom(dst, n, e) ==
    IF e > Len(dst) THEN <<>>
    ELSE IF dst[e] = n THEN <<e>> \o IncomingFrom(dst, n, e + 1)
    ELSE IncomingFrom(dst, n, e + 1)

Incoming(dst, n) == IncomingFrom(dst, n, 1)

\* the float32 sum of the rows x[es[1]], x[es[2]], ... from 0
RECURSIVE FlSum(_, _, _)
FlSum(x, es, k) ==
    IF k = 0 THEN 0 ELSE FlAdd(FlSum(x, es, k - 1), x[es[k]])

\* the same sum in exact arithmetic
RECURSIVE ExactSum(_, _, _)
ExactSum(x, es, k) ==
    IF k = 0 THEN 0 ELSE ExactSum(x, es, k - 1) + x[es[k]]

\* the whole path from the arguments to the aggregate
MessagesOf(c, a) == Messages(c, a, Gather(NodeFeatures(c, a), GatherIndex(a)))

AggregateOf(c, a) == Aggregated(c, a, MessagesOf(c, a))

Perms(S) == { f \in [S -> S] : \A x, y \in S : f[x] = f[y] => x = y }

OptCompose(opt, f) ==
    IF opt = None THEN None ELSE Some([e \in DOMAIN f |-> opt[1][f[e]]])

\* the call with its edge list reordered by f
Permute(a, f) ==
    [a EXCEPT !.edge_src = [e \in DOMAIN f |-> a.edge_src[f[e]]],
              !.edge_dst = [e \in DOMAIN f |-> a.edge_dst[f[e]]],
              !.edge_attr = [e \in DOMAIN f |-> a.edge_attr[f[e]]],
              !.edge_scalar_attr = OptCompose(a.edge_scalar_attr, f)]

\* the multiset of the rows of x that go to node n
RECURSIVE BagOfRows(_, _, _)
BagOfRows(x, es, k) ==
    IF k = 0 THEN EmptyBag ELSE BagOfRows(x, es, k - 1) (+) SetToBag({x[es[k]]})

\* the triples (i, j, n): input entry, edge entry, n-th irrep of their product
ProductTriples ==
    UNION { { <<i, j, n>> :
                n \in 1..Len(IrrepMul(cfg.irreps_node_input[i].ir,
                                      cfg.irreps_edge_attr[j].ir)) }
            : i \in 1..Len(cfg.irreps_node_input),
              j \in 1..Len(cfg.irreps_edge_attr) }

TripleIr(t) ==
    IrrepMul(cfg.irreps_node_input[t[1]].ir, cfg.irreps_edge_attr[t[2]].ir)[t[3]]

KeptTriples ==
    { t \in ProductTriples :
        InIrreps(TripleIr(t), cfg.irreps_node_output) \/ IsScalar(TripleIr(t)) }

(***************************************************************************)
(* Properties.                                                             *)
(***************************************************************************)

\* C1: after the scatter aggregation the aggregate has one row per node of
\* node_input, and row n is the float32 sum, in edge order from 0, of the
\* per-edge features of exactly the edges e with edge_dst[e] = n, divided by
\* sqrt(num_neighbors); a node without incoming edge has the zero row.
C1_ScatterAggregation ==
    pc \in {"aggregated", "returned"} =>
        /\ Len(node_features) = Len(args.node_input)
        /\ \A n \in Nodes :
            LET es == Incoming(args.edge_dst, n)
            IN  /\ node_features[n] =
                     Rat(FlSum(edge_features, es, Len(es)), Sqrt(cfg.num_neighbors))
                /\ es = <<>> => node_features[n] = Zero

C1_Witness ==
    /\ pc = "aggregated"
    /\ Len(args.edge_src) # Len(args.node_input)
    /\ cfg.num_neighbors = 4
    /\ \E n \in Nodes : Len(Incoming(args.edge_dst, n)) >= 2 /\ node_features[n] # Zero
    /\ \E n \in Nodes : Incoming(args.edge_dst, n) = <<>>
    /\ \E e \in Edges : args.edge_src[e] # args.edge_dst[e]

\* C2: the returned list has one block per entry of irreps_node_output; block k
\* is cos * self_k + sin * conv_k when both blocks are present, the present
\* block itself (no factor) when exactly one is, and None when neither is.
C2_Mixing ==
    pc = "returned" =>
        /\ Len(output) = Len(cfg.irreps_node_output)
        /\ Len(node_self_out) = Len(cfg.irreps_node_output)
        /\ \A k \in 1..Len(output) :
            LET x == node_self_out[k]
                y == node_conv_out[k]
            IN  /\ (x # None /\ y # None) =>
                     /\ output[k] # None
                     /\ \A n \in Nodes :
                          output[k][1][n] = Combo(Zero, Rat(x[1][n], 1), y[1][n])
                /\ (x # None /\ y = None) =>
                     /\ output[k] # None
                     /\ \A n \in Nodes :
                          output[k][1][n] = Combo(Rat(x[1][n], 1), Zero, Zero)
                /\ (x = None /\ y # None) =>
                     /\ output[k] # None
                     /\ \A n \in Nodes :
                          output[k][1][n] = Combo(y[1][n], Zero, Zero)
                /\ (x = None /\ y = None) => output[k] = None

C2_Witness ==
    /\ pc = "returned"
    /\ \E k \in 1..Len(output) : node_self_out[k] # None /\ node_conv_out[k] # None
    /\ \E k \in 1..Len(output) : node_self_out[k] = None /\ node_conv_out[k] # None
    /\ \E k \in 1..Len(output) : node_self_out[k] = None /\ node_conv_out[k] = None
    /\ \E n \in Nodes : node_features[n] # Zero

\* C3 as stated: the assertion fails when the shapes of the inputs do not match.
C3_AssertionIsShapeCheck ==
    (PastAssert /\ ~ShapesMatch(args)) => error = "AssertionError"

\* C3 amended: the routine raises one failure of its own, the assertion, and
\* it fails exactly when the intermediate irreps have dimension 0, whatever the
\* shapes of the arrays; mismatched shapes pass it and fail in the library.
C3_AssertionIsDimCheck ==
    /\ error \in {"none", "AssertionError", "ValueError"}
    /\ error = "AssertionError" => pc = "raised"
    /\ PastAssert =>
        /\ error = "AssertionError" <=> Dim(BuildInstructionList(cfg).mid) = 0
        /\ error = "ValueError" => ~ShapesMatch(args)
        /\ (error = "none" /\ pc # "asserted" /\ pc # "tp_built") => ShapesMatch(args)

C3_Witness ==
    /\ pc = "raised"
    /\ error = "ValueError"
    /\ ~ShapesMatch(args)
    /\ Dim(BuildInstructionList(cfg).mid) > 0

\* C4: the instruction list holds exactly one 'uvu' trainable instruction for
\* every triple (input entry i, edge entry j, irrep ir_out of ir_in * ir_edge)
\* with ir_out in irreps_node_output or scalar, and no other; the entry it
\* writes is (mul of input entry i, ir_out).
C4_Instructions ==
    pc \in {"built", "asserted"} =>
        /\ Len(instructions) = Cardinality(KeptTriples)
        /\ Len(irreps_mid) = Len(instructions)
        /\ \A t \in KeptTriples :
             Cardinality({ k \in 1..Len(instructions) :
                 /\ instructions[k].i_in1 = t[1]
                 /\ instructions[k].i_in2 = t[2]
                 /\ irreps_mid[instructions[k].i_out].ir = TripleIr(t) }) = 1
        /\ \A k \in 1..Len(instructions) :
             /\ instructions[k].mode = "uvu"
             /\ instructions[k].train
             /\ instructions[k].i_out = k
             /\ \E t \in KeptTriples :
                  /\ t[1] = instructions[k].i_in1
                  /\ t[2] = instructions[k].i_in2
                  /\ irreps_mid[k] =
                       MulIr(cfg.irreps_node_input[t[1]].mul, TripleIr(t))

C4_Witness ==
    /\ pc = "built"
    /\ Len(instructions) >= 4
    /\ Cardinality(ProductTriples) > Cardinality(KeptTriples)
    /\ \E k \in 1..Len(instructions) :
         cfg.irreps_node_input[instructions[k].i_in1].mul #
             cfg.irreps_edge_attr[instructions[k].i_in2].mul

\* some path has an input entry of multiplicity >= 1
PathExists ==
    \E t \in KeptTriples : cfg.irreps_node_input[t[1]].mul >= 1

\* C5: the assertion fails exactly when no pair (input entry, edge entry) has a
\* product irrep that is in irreps_node_output or scalar with a non-zero
\* multiplicity; with such a path the call passes it and builds the tensor
\* product.
C5_AssertionExactlyNoPath ==
    /\ PastAssert => (error = "AssertionError" <=> ~PathExists)
    /\ (PastAssert /\ PathExists /\ pc # "asserted") => tp # None
    /\ tp # None => PathExists

C5_Witness ==
    /\ error = "AssertionError"
    /\ Len(irreps_mid) > 0
    /\ ShapesMatch(args)

C5_WitnessPass ==
    /\ pc = "tp_built"
    /\ PathExists
    /\ ~InIrreps(Ir0e, cfg.irreps_node_output)
    /\ InIrreps(Ir0e, tp[1].irreps_out)

\* C6: the step that sorts irreps_mid and remaps i_out leaves every entry of
\* the sorted irreps written by exactly one instruction, and the sorted entry
\* at the remapped index of instruction k is the entry k appended before.
C6_SortKeepsInstructions ==
    [][(pc = "asserted" /\ pc' = "tp_built") =>
          /\ Len(tp'[1].irreps_out) = Len(irreps_mid)
          /\ Len(tp'[1].instructions) = Len(instructions)
          /\ instructions' = tp'[1].instructions
          /\ \A n \in 1..Len(tp'[1].irreps_out) :
               Cardinality({ k \in 1..Len(instructions') :
                                instructions'[k].i_out = n }) = 1
          /\ \A k \in 1..Len(instructions) :
               /\ instructions'[k].i_in1 = instructions[k].i_in1
               /\ instructions'[k].i_in2 = instructions[k].i_in2
               /\ tp'[1].irreps_out[instructions'[k].i_out] =
                      irreps_mid[instructions[k].i_out]
          /\ \A n \in 1..(Len(tp'[1].irreps_out) - 1) :
               ~IrLess(tp'[1].irreps_out[n + 1].ir, tp'[1].irreps_out[n].ir)
    ]_vars

C6_Witness ==
    /\ pc = "tp_built"
    /\ \E k \in 1..Len(instructions) : instructions[k].i_out # k
    /\ \E k \in 1..Len(instructions) : instructions[k].i_out = k

\* C7: until the tensor product, the feature of edge e is the transformed
\* feature of node edge_src[e]; the tensor product combines it with
\* edge_attr[e] and the weight of edge e only; so the aggregate of node n is
\* unchanged when the input feature of a node that is the source of no edge
\* into n changes.
C7_MessageLocality ==
    /\ pc \in {"gathered", "built", "asserted", "tp_built"} =>
        /\ Len(edge_features) = Len(node_features)
        /\ \A i \in 1..Len(node_features) :
            IF node_features[i] = None THEN edge_features[i] = None
            ELSE /\ edge_features[i] # None
                 /\ Len(edge_features[i][1]) = Len(args.edge_src)
                 /\ \A e \in Edges :
                      edge_features[i][1][e] = node_features[i][1][args.edge_src[e]]
    /\ pc = "convolved" =>
        /\ Len(edge_features) = Len(args.edge_src)
        /\ \A e \in Edges :
             edge_features[e] =
                 LeftRight(Weight(cfg, args, e),
                           RowOf(node_features, args.edge_src[e]),
                           args.edge_attr[e])
    /\ pc = "aggregated" =>
        \A m, n \in Nodes :
            (~ \E e \in Edges : args.edge_src[e] = m /\ args.edge_dst[e] = n) =>
                \A v \in {1, 3, Big} :
                    AggregateOf(cfg, [args EXCEPT !.node_input[m] = v])[n]
                        = node_features[n]

C7_Witness ==
    /\ pc = "aggregated"
    /\ \E m, n \in Nodes :
        /\ m # n
        /\ \E e \in Edges : args.edge_src[e] = m /\ args.edge_dst[e] = n
        /\ ~ \E e \in Edges : args.edge_src[e] = n /\ args.edge_dst[e] = m
        /\ args.node_input[m] # args.node_input[n]
        /\ node_features[n] # Zero
        /\ node_features[m] # node_features[n]

====
